---- MODULE Spec2Model ----
(***************************************************************************)
(* Farm advisor dashboard: the crop recommendation scorer                  *)
(* (buildRecommendations, scoreRange) and the data load of the Home page   *)
(* (geolocation, loadAll with its three fetches and their fallbacks).      *)
(*                                                                         *)
(* Numbers.  The source computes on IEEE doubles; the model computes the   *)
(* same expressions exactly, on integers with a fixed denominator:         *)
(*   pH, temperature            tenths            (6.6 -> 66, 31.5 -> 315) *)
(*   moisture                   percent           (58 -> 58)               *)
(*   scoreRange                 1/25              (1 - d/2.5 = (25-d)/25)  *)
(*   waterScore                 1/100                                      *)
(*   fit                        1/2000                                     *)
(*   yieldAdj                   1/10000                                    *)
(*   marketBoost (priceAdj)     1/5500                                     *)
(*   expectedYieldTPerHa        1/100000 t/ha                              *)
(*   profitUSDPerHa             1/55000000 USD, as a two-limb number       *)
(*   sustainabilityScore        integer (after Math.round)                 *)
(***************************************************************************)
EXTENDS Integers, Sequences, FiniteSets, TLC

VARIABLES
    \* ---- Home component state (part_000:35-40) and the load in flight
    mounted,      \* the component is mounted (the effect cleanups have not run)
    geo,          \* geolocation request: "idle" | "pending" | "done"
    coords,       \* useState<Coords|null>
    soil,         \* useState<SoilData>
    weather,      \* useState<WeatherData>
    market,       \* useState<MarketPrice[]>
    loading,      \* useState(true)
    error,        \* useState<string|null>
    cancelled,    \* the `cancelled` flag of the load effect's closure
    loadPc,       \* loadAll: "idle" | "awaiting" | "done"
    soilP,        \* fetchSoil(coords) promise: [state, value]
    weatherP,     \* fetchWeather(coords) promise
    marketP,      \* fetchMarket() promise
    \* ---- a call of buildRecommendations(soil, weather, market)
    argSoil, argWeather, argMarket, called, result,
    \* ---- a call of scoreRange(x, a, b)
    srX, srA, srB, srCalled, srOut,
    \* ---- chat state of the Home component (part_000:43-48, 101-121)
    messages,     \* useState<Array<{role, content, imageUrl?}>>
    input,        \* useState(""): the text as a sequence of words
    image,        \* useState<string|null>
    lang,         \* useState("en-IN")
    timers,       \* the pending setTimeout(..., 400) callbacks, oldest first
    reading,      \* the FileReader reads in flight, oldest first
    utterance,    \* what window.speechSynthesis is speaking
    sends,        \* number of Send clicks so far
    \* ---- voice input of the Home component (part_000:49-50, 123-146)
    listening,        \* useState(false)
    recognitionRef,   \* useRef(null): 0, or the number of the session it holds
    sessions,         \* the SpeechRecognition objects created, in order
    speechSupported,  \* "SpeechRecognition" in window
    \* ---- the login and register pages (login/page.tsx, register/page.tsx)
    route,        \* the page the router shows
    form,         \* useState of the mounted page's form
    authLoading,  \* useState(false) `loading` of the mounted page
    authPc,       \* where the mounted page's onSubmit is
    authCall,     \* the arguments of the auth client call in flight
    authResult,   \* what the last auth client call gave back
    toast,        \* the last toast shown
    submits       \* number of form submissions so far

appVars == <<mounted, geo, coords, soil, weather, market, loading, error,
             cancelled, loadPc, soilP, weatherP, marketP>>
scorerVars == <<argSoil, argWeather, argMarket, called, result>>
rangeVars == <<srX, srA, srB, srCalled, srOut>>
chatVars == <<messages, input, image, lang, timers, reading, utterance, sends>>
voiceVars == <<listening, recognitionRef, sessions, speechSupported>>
authVars == <<route, form, authLoading, authPc, authCall, authResult, toast, submits>>
pageVars == <<chatVars, voiceVars, authVars>>
vars == <<appVars, scorerVars, rangeVars, pageVars>>

----------------------------------------------------------------------------
(* Arithmetic helpers *)

Max(x, y) == IF x >= y THEN x ELSE y
Min(x, y) == IF x <= y THEN x ELSE y
Abs(x) == IF x < 0 THEN -x ELSE x

\* Math.round on a value given in tenths: floor(v + 0.5)
MathRoundTenths(v10) == (v10 + 5) \div 10

\* Number.prototype.toFixed(0) on a value given in tenths: nearest integer,
\* a tie going to the larger magnitude
ToFixed0Tenths(v10) ==
    IF v10 >= 0 THEN (v10 + 5) \div 10 ELSE -((-v10 + 5) \div 10)

\* Number.prototype.toFixed(1) on a value given in tenths: sign, integer
\* digits and one fraction digit
ToFixed1Tenths(v10) ==
    <<IF v10 < 0 THEN "-" ELSE "", Abs(v10) \div 10, Abs(v10) % 10>>

\* `r.f ?? d` on an optional field f of the record r
Nullish(r, f, d) == IF f \in DOMAIN r THEN r[f] ELSE d

----------------------------------------------------------------------------
(* scoreRange, part_000:545-549 *)

\* 2.5, the falloff width, in tenths; also the denominator of a score
Falloff == 25

scoreRangeNoClamp(x, a, b) ==
    IF x >= a /\ x <= b THEN Falloff
    ELSE LET d == IF x < a THEN a - x ELSE x - b
         IN  Falloff - d

scoreRangeHalfWidth(x, a, b) ==
    IF x >= a /\ x <= b THEN Falloff
    ELSE LET d == IF x < a THEN a - x ELSE x - b
         IN  Max(0, Falloff - 2 * d)

scoreRange(x, a, b) ==
    IF x >= a /\ x <= b THEN Falloff
    ELSE LET d == IF x < a THEN a - x ELSE x - b
         IN  Max(0, Falloff - d)

----------------------------------------------------------------------------
(* buildRecommendations, part_000:472-543 *)

DefaultPh == 65
DefaultMoisture == 55
DefaultTemp == 300

\* the built-in crop profiles, part_000:477-518
crops == <<
    [crop |-> "Wheat",    idealPh |-> <<60, 75>>, idealTemp |-> <<100, 250>>,
     water |-> "medium", baseYield |-> 32, baseProfit |-> 700],
    [crop |-> "Rice",     idealPh |-> <<55, 70>>, idealTemp |-> <<200, 350>>,
     water |-> "high",   baseYield |-> 45, baseProfit |-> 900],
    [crop |-> "Maize",    idealPh |-> <<58, 72>>, idealTemp |-> <<180, 320>>,
     water |-> "medium", baseYield |-> 38, baseProfit |-> 650],
    [crop |-> "Chickpea", idealPh |-> <<60, 80>>, idealTemp |-> <<150, 300>>,
     water |-> "low",    baseYield |-> 22, baseProfit |-> 780],
    [crop |-> "Cotton",   idealPh |-> <<58, 80>>, idealTemp |-> <<200, 350>>,
     water |-> "medium", baseYield |-> 21, baseProfit |-> 820] >>

\* String.prototype.toLowerCase on the crop names the model uses
toLowerCase(s) ==
    CASE s \in {"Wheat", "WHEAT", "wheat"}          -> "wheat"
      [] s \in {"Rice", "RICE", "rice"}             -> "rice"
      [] s \in {"Maize", "maize"}                   -> "maize"
      [] s \in {"Chickpea", "chickpea"}             -> "chickpea"
      [] s \in {"Cotton", "COTTON", "cotton"}       -> "cotton"
      [] s \in {"Tomato", "tomato"}                 -> "tomato"
      [] s \in {"Onion", "onion"}                   -> "onion"
      [] OTHER                                      -> s

\* Array.prototype.find: the index of the first entry matching name, 0 if none
RECURSIVE FindFrom(_, _, _)
FindFrom(mkt, name, i) ==
    IF i > Len(mkt) THEN 0
    ELSE IF toLowerCase(mkt[i].crop) = toLowerCase(name) THEN i
    ELSE FindFrom(mkt, name, i + 1)

marketFind(mkt, name) == FindFrom(mkt, name, 1)

\* denominators and the cap 1.25 of marketBoost, in 1/5500
BoostDen == 5500
BoostCap == 6875

\* 1 + (price / ref - 1) * 0.4 in 1/5500:
\*   ref 2200: (3300 + price) / 5500      ref 25: (3300 + 88 * price) / 5500
rawBoost(m) ==
    IF m.unit = "kg" THEN 3300 + 88 * m.price ELSE 3300 + m.price

marketBoostCaseSensitive(mkt, name) ==
    LET hit == {i \in 1..Len(mkt) : mkt[i].crop = name}
    IN  IF hit # {}
        THEN Min(BoostCap, rawBoost(mkt[CHOOSE i \in hit : \A j \in hit : i <= j]))
        ELSE BoostDen

marketBoost(mkt, name) ==
    LET i == marketFind(mkt, name)
    IN  IF i # 0 THEN Min(BoostCap, rawBoost(mkt[i])) ELSE BoostDen

----------------------------------------------------------------------------
(* the per-crop computation, part_000:526-539 *)

phOf(s) == Nullish(s, "ph", DefaultPh)

moistureOfIrrigationDefault(s) == Nullish(s, "moisture", 45)

moistureOf(s) == Nullish(s, "moisture", DefaultMoisture)

tempOf(w) == Nullish(w, "temperature", DefaultTemp)

\* line 529 with the "high" branch lost
waterScoreHighAsMedium(c, moisture) ==
    IF c.water = "low" THEN 100 - Abs(moisture - 45)
    ELSE 100 - Abs(moisture - 60)

\* line 529, in 1/100
waterScore(c, moisture) ==
    IF c.water = "high" THEN moisture
    ELSE IF c.water = "low" THEN 100 - Abs(moisture - 45)
    ELSE 100 - Abs(moisture - 60)

\* line 530, in 1/2000: 0.45 p/25 + 0.4 t/25 + 0.15 w/100
fitOf(phScore, tempScore, wScore) == 36 * phScore + 32 * tempScore + 3 * wScore

\* line 531 with >= for >
suitabilityNonStrict(fit) ==
    IF fit >= 1400 THEN "high" ELSE IF fit >= 1000 THEN "medium" ELSE "low"

\* line 531: fit > 0.7, fit > 0.5
suitabilityOf(fit) ==
    IF fit > 1400 THEN "high" ELSE IF fit > 1000 THEN "medium" ELSE "low"

\* line 532, in 1/10000: 0.8 + fit * 0.6
yieldAdjOf(fit) == 8000 + 3 * fit

\* the water penalty of line 536, in tenths
waterPenaltyHighEight(c) ==
    IF c.water = "high" THEN 8 ELSE IF c.water = "medium" THEN 3 ELSE 1

waterPenalty(c) ==
    IF c.water = "high" THEN 6 ELSE IF c.water = "medium" THEN 3 ELSE 1

\* line 536: Math.round(60 + (1 - waterPenalty) * 25 + phScore * 15);
\* the argument in tenths is 600 + (10 - wp) * 25 + 6 * phScore
sustainabilityPhWeight25(c, phScore) ==
    MathRoundTenths(600 + (10 - waterPenalty(c)) * 25 + 10 * phScore)

sustainabilityOf(c, phScore) ==
    MathRoundTenths(600 + (10 - waterPenalty(c)) * 25 + 6 * phScore)

\* A product x * y wider than TLC's 32-bit integers, kept exactly as the two
\* limbs hi * Limb + lo with 0 <= lo < Limb (y >= 0)
Limb == 10000

WideMul(x, y) ==
    LET xh == x \div Limb
        xl == x % Limb
    IN  [hi |-> xh * y + (xl * y) \div Limb, lo |-> (xl * y) % Limb]

WideLess(p, q) == p.hi < q.hi \/ (p.hi = q.hi /\ p.lo < q.lo)
WideLeq(p, q) == ~WideLess(q, p)

\* line 535: c.baseProfit * yieldAdj * priceAdj, in 1/55000000 USD
profitOf(c, yieldAdj, priceAdj) == WideMul(c.baseProfit * yieldAdj, priceAdj)

\* line 537: the rationale's formatted numbers and tier
rationaleOf(ph, temp, moisture, suitability) ==
    <<ToFixed1Tenths(ph), ToFixed0Tenths(temp), moisture, suitability>>

\* the callback of crops.map, lines 526-539
recOf(c, ph, temp, moisture, mkt) ==
    LET phScore == scoreRange(ph, c.idealPh[1], c.idealPh[2])
        tempScore == scoreRange(temp, c.idealTemp[1], c.idealTemp[2])
        wScore == waterScore(c, moisture)
        fit == fitOf(phScore, tempScore, wScore)
        suitability == suitabilityOf(fit)
        yieldAdj == yieldAdjOf(fit)
        priceAdj == marketBoost(mkt, c.crop)
    IN  [crop |-> c.crop,
         suitability |-> suitability,
         expectedYieldTPerHa |-> c.baseYield * yieldAdj,
         profitUSDPerHa |-> profitOf(c, yieldAdj, priceAdj),
         sustainabilityScore |-> sustainabilityOf(c, phScore),
         rationale |-> rationaleOf(ph, temp, moisture, suitability)]

\* the comparator of line 541, (a, b) => b.profitUSDPerHa - a.profitUSDPerHa:
\* its sign
compareProfit(r1, r2) ==
    IF WideLess(r1.profitUSDPerHa, r2.profitUSDPerHa) THEN 1
    ELSE IF WideLess(r2.profitUSDPerHa, r1.profitUSDPerHa) THEN -1
    ELSE 0

\* Array.prototype.sort with that comparator (stable): insertion of each
\* element after the last one that does not have to follow it
RECURSIVE InsertSorted(_, _)
InsertSorted(sorted, r) ==
    IF sorted = <<>> THEN <<r>>
    ELSE IF compareProfit(sorted[Len(sorted)], r) <= 0
         THEN Append(sorted, r)
         ELSE Append(InsertSorted(SubSeq(sorted, 1, Len(sorted) - 1), r),
                     sorted[Len(sorted)])

RECURSIVE SortFrom(_, _, _)
SortFrom(s, i, acc) ==
    IF i > Len(s) THEN acc ELSE SortFrom(s, i + 1, InsertSorted(acc, s[i]))

sortByProfit(s) == SortFrom(s, 1, <<>>)

\* Array.prototype.slice(0, n)
sliceTo(s, n) == SubSeq(s, 1, Min(n, Len(s)))

TopN == 4

mapCrops(s, w, mkt) ==
    [i \in 1..Len(crops) |-> recOf(crops[i], phOf(s), tempOf(w), moistureOf(s), mkt)]

buildRecommendationsUnsorted(s, w, mkt) == sliceTo(mapCrops(s, w, mkt), TopN)

buildRecommendations(s, w, mkt) == sliceTo(sortByProfit(mapCrops(s, w, mkt)), TopN)

----------------------------------------------------------------------------
(* Values of the Home component *)

\* null, as a value of `string | null` and as a value of `Coords | null`
nullString == "null"
nullCoords == [null |-> TRUE]

initialSoil == [source |-> "loading"]
initialWeather == [source |-> "loading"]

\* part_000:452-470
mockSoil == [ph |-> 66, moisture |-> 58, organicCarbon |-> 82, source |-> "demo"]

mockWeather ==
    [temperature |-> 315, precipitation |-> 0, windspeed |-> 8, humidity |-> 58,
     daily |-> [i \in 1..5 |->
                  [tmax |-> 33 - (i - 1), tmin |-> 24 - (i - 1),
                   rain |-> IF i - 1 = 1 THEN 60 ELSE 15]],
     source |-> "demo"]

mockMarket == <<
    [crop |-> "Wheat",  unit |-> "quintal", price |-> 2275, market |-> "Delhi Mandi"],
    [crop |-> "Rice",   unit |-> "quintal", price |-> 2400, market |-> "Lucknow Mandi"],
    [crop |-> "Tomato", unit |-> "kg",      price |-> 22,   market |-> "Pune Market"],
    [crop |-> "Onion",  unit |-> "kg",      price |-> 28,   market |-> "Nashik"] >>

InitApp ==
    /\ mounted = FALSE
    /\ geo = "idle"
    /\ coords = nullCoords
    /\ soil = initialSoil
    /\ weather = initialWeather
    /\ market = <<>>
    /\ loading = TRUE
    /\ error = nullString
    /\ cancelled = FALSE
    /\ loadPc = "idle"
    /\ soilP = [state |-> "none"]
    /\ weatherP = [state |-> "none"]
    /\ marketP = [state |-> "none"]

\* the greeting of lines 43-45
greeting ==
    [role |-> "assistant",
     content |-> [prefix |-> "", parts |-> <<[kind |-> "greeting"]>>]]

nullImage == [null |-> TRUE]

InitChat ==
    /\ messages = <<greeting>>
    /\ input = <<>>
    /\ image = nullImage
    /\ lang = "en-IN"
    /\ timers = <<>>
    /\ reading = <<>>
    /\ utterance = [none |-> TRUE]
    /\ sends = 0

InitVoice ==
    /\ listening = FALSE
    /\ recognitionRef = 0
    /\ sessions = <<>>
    /\ speechSupported = TRUE

\* login/page.tsx:11 and register/page.tsx:11
initialLoginForm == [email |-> "", password |-> "", rememberMe |-> TRUE]
initialRegisterForm == [name |-> "", email |-> "", password |-> "", confirm |-> ""]

noCall == [none |-> TRUE]
noResult == [none |-> TRUE]

InitAuth ==
    /\ route = "/login"
    /\ form = initialLoginForm
    /\ authLoading = FALSE
    /\ authPc = "idle"
    /\ authCall = noCall
    /\ authResult = noResult
    /\ toast = ""
    /\ submits = 0

InitPages == InitChat /\ InitVoice /\ InitAuth

InitScorer ==
    /\ argSoil = initialSoil
    /\ argWeather = initialWeather
    /\ argMarket = <<>>
    /\ called = FALSE
    /\ result = <<>>

InitRange ==
    /\ srX = 0
    /\ srA = 0
    /\ srB = 0
    /\ srCalled = FALSE
    /\ srOut = 0

----------------------------------------------------------------------------
(* Geolocation effect, part_000:52-69 *)

\* Delhi, the fallback position (lat 28.6139, lon 77.209), in 1/10000 degree
Delhi == [lat |-> 286139, lon |-> 772090]

\* positions the browser may report
Positions == {[lat |-> 129716, lon |-> 775946], [lat |-> 0, lon |-> 0]}

\* first render in a browser with navigator.geolocation: the request is
\* issued; the load effect sees coords = null and returns
MountWithGeolocation ==
    /\ ~mounted /\ geo = "idle"
    /\ mounted' = TRUE
    /\ geo' = "pending"
    /\ UNCHANGED <<coords, soil, weather, market, loading, error, cancelled,
                   loadPc, soilP, weatherP, marketP, scorerVars, rangeVars, pageVars>>

\* first render without navigator.geolocation: setCoords(Delhi)
MountWithoutGeolocation ==
    /\ ~mounted /\ geo = "idle"
    /\ mounted' = TRUE
    /\ geo' = "unsupported"
    /\ coords' = Delhi
    /\ UNCHANGED <<soil, weather, market, loading, error, cancelled,
                   loadPc, soilP, weatherP, marketP, scorerVars, rangeVars, pageVars>>

\* the success callback; a state update of an unmounted component is dropped
GeoSuccess ==
    /\ geo = "pending"
    /\ geo' = "done"
    /\ \E c \in Positions : coords' = IF mounted THEN c ELSE coords
    /\ UNCHANGED <<mounted, soil, weather, market, loading, error, cancelled,
                   loadPc, soilP, weatherP, marketP, scorerVars, rangeVars, pageVars>>

\* the error callback: permission denied, or the 8000 ms timeout
GeoError ==
    /\ geo = "pending"
    /\ geo' = "done"
    /\ coords' = IF mounted THEN Delhi ELSE coords
    /\ UNCHANGED <<mounted, soil, weather, market, loading, error, cancelled,
                   loadPc, soilP, weatherP, marketP, scorerVars, rangeVars, pageVars>>

----------------------------------------------------------------------------
(* fetchSoil, fetchWeather, fetchMarket, part_000:410-450 *)

\* What the network gives back to one fetch(url): a rejection, a response
\* that is not ok, a body that is not JSON, or a JSON document
networkError == [kind |-> "networkError"]
notOk == [kind |-> "response", ok |-> FALSE]
badJson == [kind |-> "response", ok |-> TRUE, body |-> "malformed"]
okJson(j) == [kind |-> "response", ok |-> TRUE, body |-> "json", json |-> j]

\* SoilGrids documents, reduced to the two values fetchSoil reads: the Q50
\* of layer phh2o (pH x 10) and of layer soc, each possibly missing
SoilJsons == {
    [phh2o |-> 66, soc |-> 120],
    [phh2o |-> 81],
    [phh2o |-> 0, soc |-> 0],
    [soc |-> 95] }

SoilResponses == {networkError, notOk, badJson} \cup {okJson(j) : j \in SoilJsons}

\* Open-Meteo documents, reduced to what fetchWeather reads
WeatherJsons == {
    [current |-> [temperature_2m |-> 285, relative_humidity_2m |-> 40,
                  precipitation |-> 0, wind_speed_10m |-> 12],
     daily |-> [time |-> <<"d1", "d2">>, temperature_2m_max |-> <<31, 30>>,
                temperature_2m_min |-> <<22, 21>>, precipitation_sum |-> <<70, 0>>]],
    [current |-> [temperature_2m |-> 0],
     daily |-> [time |-> <<"d1">>, temperature_2m_max |-> <<4>>]],
    [current |-> [relative_humidity_2m |-> 90]] }

WeatherResponses ==
    {networkError, notOk, badJson} \cup {okJson(j) : j \in WeatherJsons}

\* a settled async call: rejected, or fulfilled with a value
Rejected == [rejected |-> TRUE]
Fulfilled(v) == [rejected |-> FALSE, value |-> v]

\* record r with field f set to v when the source's value is not undefined
WithField(r, f, present, v) ==
    IF present THEN [x \in DOMAIN r \cup {f} |-> IF x = f THEN v ELSE r[x]] ELSE r

\* fetchSoil on a response, lines 413-423; ph / 10 of the x10 value is the
\* same number of tenths, and `ph ? ... : undefined` drops a Q50 of 0
fetchSoil(resp) ==
    IF resp.kind = "networkError" \/ ~resp.ok \/ resp.body = "malformed"
    THEN Rejected
    ELSE LET j == resp.json
             hasPh == "phh2o" \in DOMAIN j /\ j.phh2o # 0
             hasSoc == "soc" \in DOMAIN j
         IN  Fulfilled(WithField(WithField([source |-> "SoilGrids"],
                                           "ph", hasPh, IF hasPh THEN j.phh2o ELSE 0),
                                 "organicCarbon", hasSoc, IF hasSoc THEN j.soc ELSE 0))

\* arr?.[i] ?? 0 of lines 433-435 (i from 1)
ElemOrZero(d, f, i) == IF f \in DOMAIN d /\ i <= Len(d[f]) THEN d[f][i] ELSE 0

\* fetchWeather on a response, lines 428-444
fetchWeather(resp) ==
    IF resp.kind = "networkError" \/ ~resp.ok \/ resp.body = "malformed"
    THEN Rejected
    ELSE LET j == resp.json
             cur == IF "current" \in DOMAIN j THEN j.current ELSE [none |-> 0]
             times == IF "daily" \in DOMAIN j /\ "time" \in DOMAIN j.daily
                      THEN j.daily.time ELSE <<>>
             daily == [i \in 1..Len(times) |->
                         [date |-> times[i],
                          tmax |-> ElemOrZero(j.daily, "temperature_2m_max", i),
                          tmin |-> ElemOrZero(j.daily, "temperature_2m_min", i),
                          rain |-> ElemOrZero(j.daily, "precipitation_sum", i)]]
             has(f) == f \in DOMAIN cur
             get(f) == IF f \in DOMAIN cur THEN cur[f] ELSE 0
         IN  Fulfilled(
               WithField(WithField(WithField(WithField(
                 [daily |-> daily, source |-> "Open-Meteo"],
                 "temperature", has("temperature_2m"), get("temperature_2m")),
                 "precipitation", has("precipitation"), get("precipitation")),
                 "windspeed", has("wind_speed_10m"), get("wind_speed_10m")),
                 "humidity", has("relative_humidity_2m"), get("relative_humidity_2m")))

\* fetchMarket, lines 447-450: no request, the demo list
fetchMarket == Fulfilled(mockMarket)

\* p.catch(() => mock()) of lines 79-81, on the settled p
propagateRejection(outcome, mock) == outcome

catchToMock(outcome, mock) == IF outcome.rejected THEN Fulfilled(mock) ELSE outcome

\* a promise of Promise.all's array: pending, or settled with the outcome of
\* the fetch (`fetched`) and of its .catch wrapper (`settled`)
Pending == [state |-> "pending"]
Settled(outcome, mock) ==
    [state |-> "settled", fetched |-> outcome, settled |-> catchToMock(outcome, mock)]

----------------------------------------------------------------------------
(* The load effect and loadAll, part_000:71-97 *)

ErrorNotice == "Failed to load some data. Showing demo values."

\* the effect runs after the render that follows setCoords: lines 72-82,
\* up to the await.  fetchMarket, an async function without an await,
\* returns an already fulfilled promise.
LoadAllStart ==
    /\ mounted /\ coords # nullCoords /\ loadPc = "idle"
    /\ cancelled' = FALSE
    /\ loading' = TRUE
    /\ error' = nullString
    /\ soilP' = Pending
    /\ weatherP' = Pending
    /\ marketP' = Settled(fetchMarket, mockMarket)
    /\ loadPc' = "awaiting"
    /\ UNCHANGED <<mounted, geo, coords, soil, weather, market, scorerVars, rangeVars, pageVars>>

\* the soil request ends, whichever way: fetchSoil continues and settles
SoilResponse ==
    /\ soilP = Pending
    /\ \E resp \in SoilResponses : soilP' = Settled(fetchSoil(resp), mockSoil)
    /\ UNCHANGED <<mounted, geo, coords, soil, weather, market, loading, error,
                   cancelled, loadPc, weatherP, marketP, scorerVars, rangeVars, pageVars>>

\* the weather request ends
WeatherResponse ==
    /\ weatherP = Pending
    /\ \E resp \in WeatherResponses :
           weatherP' = Settled(fetchWeather(resp), mockWeather)
    /\ UNCHANGED <<mounted, geo, coords, soil, weather, market, loading, error,
                   cancelled, loadPc, soilP, marketP, scorerVars, rangeVars, pageVars>>

AllSettled ==
    /\ soilP.state = "settled"
    /\ weatherP.state = "settled"
    /\ marketP.state = "settled"

\* Promise.all settles and loadAll resumes after the await: lines 83-91
LoadAllResume ==
    /\ loadPc = "awaiting" /\ AllSettled
    /\ loadPc' = "done"
    /\ LET rejects == \/ soilP.settled.rejected
                      \/ weatherP.settled.rejected
                      \/ marketP.settled.rejected
       IN  IF cancelled
           THEN UNCHANGED <<soil, weather, market, error, loading>>
           ELSE IF rejects
           THEN /\ error' = ErrorNotice
                /\ loading' = FALSE
                /\ UNCHANGED <<soil, weather, market>>
           ELSE /\ soil' = soilP.settled.value
                /\ weather' = weatherP.settled.value
                /\ market' = marketP.settled.value
                /\ loading' = FALSE
                /\ UNCHANGED error
    /\ UNCHANGED <<mounted, geo, coords, cancelled, soilP, weatherP, marketP,
                   scorerVars, rangeVars, pageVars>>

\* the component unmounts: the cleanup of the load effect (lines 94-96)
\* runs if the effect got past `if (!coords) return`
Unmount ==
    /\ mounted
    /\ mounted' = FALSE
    /\ cancelled' = IF loadPc # "idle" THEN TRUE ELSE cancelled
    /\ UNCHANGED <<geo, coords, soil, weather, market, loading, error,
                   loadPc, soilP, weatherP, marketP, scorerVars, rangeVars, pageVars>>

\* useMemo of line 99
recommendations == buildRecommendations(soil, weather, market)

Init == InitApp /\ InitScorer /\ InitRange /\ InitPages

Next ==
    \/ MountWithGeolocation
    \/ MountWithoutGeolocation
    \/ GeoSuccess
    \/ GeoError
    \/ LoadAllStart
    \/ SoilResponse
    \/ WeatherResponse
    \/ LoadAllResume
    \/ Unmount

Spec == Init /\ [][Next]_vars

\* Scheduling: the browser calls one geolocation callback (the request has
\* a timeout), React runs a pending effect, and the event loop resumes an
\* async function whose awaited promise has settled.  Nothing in the
\* source bounds the time a fetch takes, so no response is guaranteed.
Fairness ==
    /\ WF_vars(GeoSuccess \/ GeoError)
    /\ WF_vars(LoadAllStart)
    /\ WF_vars(LoadAllResume)

FairSpec == Spec /\ Fairness

----------------------------------------------------------------------------
(* Properties of the load (under Spec and FairSpec) *)

\* the load has run to its end and its results were not discarded by an unmount
LoadApplied == loadPc = "done" /\ ~cancelled

SoilFailed == soilP.state = "settled" /\ soilP.fetched.rejected
WeatherFailed == weatherP.state = "settled" /\ weatherP.fetched.rejected
MarketFailed == marketP.state = "settled" /\ marketP.fetched.rejected

\* C3: after a load, exactly the sources whose fetch failed hold their demo
\* values and every source whose fetch succeeded holds its fetched value,
\* for every subset of failed sources; one failure discards nothing else.
C3_FailuresIsolated ==
    LoadApplied =>
        /\ soil = IF SoilFailed THEN mockSoil ELSE soilP.fetched.value
        /\ weather = IF WeatherFailed THEN mockWeather ELSE weatherP.fetched.value
        /\ market = IF MarketFailed THEN mockMarket ELSE marketP.fetched.value

\* C3 witness: the soil fetch failed and the weather fetch succeeded; soil
\* holds the demo value next to the fetched weather
C3_Witness ==
    /\ LoadApplied
    /\ SoilFailed /\ ~WeatherFailed
    /\ soil = mockSoil
    /\ weather.source = "Open-Meteo"
    /\ "temperature" \in DOMAIN weather

\* C4 as stated: once a load is under way, its three fetches end and the
\* loading flag becomes false (while the page stays mounted), even if a
\* provider never responds.
C4_Original_AlwaysFinishes ==
    (loadPc = "awaiting") ~> ((AllSettled /\ loading = FALSE) \/ ~mounted)

\* C5 as stated: after a load in which a fetch failed, the failed data is
\* replaced by demo values and the error state holds the notice; after a
\* load without a failure the error state is null.
C5_Original_NoticeOnFailure ==
    LoadApplied =>
        IF SoilFailed \/ WeatherFailed \/ MarketFailed
        THEN /\ error = ErrorNotice
             /\ SoilFailed => soil = mockSoil
             /\ WeatherFailed => weather = mockWeather
        ELSE error = nullString

----------------------------------------------------------------------------
(* scoreRange applied to bounded inputs (tenths) *)

MaxX == 64
MinBound == 28
MaxBound == 36

RangeInit ==
    /\ InitApp
    /\ InitScorer
    /\ InitPages
    /\ srX \in 0..MaxX
    /\ srA \in MinBound..MaxBound
    /\ srB \in srA..MaxBound
    /\ srCalled = FALSE
    /\ srOut = 0

CallScoreRange ==
    /\ ~srCalled
    /\ srOut' = scoreRange(srX, srA, srB)
    /\ srCalled' = TRUE
    /\ UNCHANGED <<srX, srA, srB, appVars, scorerVars, pageVars>>

RangeNext == CallScoreRange

SpecScoreRange == RangeInit /\ [][RangeNext]_vars

----------------------------------------------------------------------------
(* buildRecommendations applied to bounded inputs *)

MinPh == 30
MaxPh == 100
PhStep == 2
MaxMoisture == 100
MoistureStep == 25
MinTemp == 100
MaxTemp == 400
TempStep == 75
MaxMarketLen == 2

PhInputs == {p \in MinPh..MaxPh : p % PhStep = 0} \cup {mockSoil.ph}
MoistureInputs == {m \in 0..MaxMoisture : m % MoistureStep = 0} \cup {mockSoil.moisture}
TempInputs == {t \in MinTemp..MaxTemp : (t - MinTemp) % TempStep = 0}
                  \cup {mockWeather.temperature}

SoilInputs ==
    {[source |-> "input"]}
    \cup {[ph |-> p, source |-> "input"] : p \in PhInputs}
    \cup {[moisture |-> m, source |-> "input"] : m \in MoistureInputs}
    \cup {[ph |-> p, moisture |-> m, source |-> "input"] :
             p \in PhInputs, m \in MoistureInputs}

WeatherInputs ==
    {[source |-> "input"]}
    \cup {[temperature |-> t, source |-> "input"] : t \in TempInputs}

MarketEntries == {
    [crop |-> "Rice",   unit |-> "quintal", price |-> 2400, market |-> "m"],
    [crop |-> "RICE",   unit |-> "quintal", price |-> 5000, market |-> "m"],
    [crop |-> "wheat",  unit |-> "kg",      price |-> 20,   market |-> "m"],
    [crop |-> "Cotton", unit |-> "quintal", price |-> 2200, market |-> "m"],
    [crop |-> "Tomato", unit |-> "kg",      price |-> 22,   market |-> "m"] }

MarketInputs == UNION {[1..n -> MarketEntries] : n \in 0..MaxMarketLen}

ScorerInit ==
    /\ InitApp
    /\ InitRange
    /\ InitPages
    /\ argSoil \in SoilInputs
    /\ argWeather \in WeatherInputs
    /\ argMarket \in MarketInputs
    /\ called = FALSE
    /\ result = <<>>

CallBuildRecommendations ==
    /\ ~called
    /\ result' = buildRecommendations(argSoil, argWeather, argMarket)
    /\ called' = TRUE
    /\ UNCHANGED <<argSoil, argWeather, argMarket, appVars, rangeVars, pageVars>>

ScorerNext == CallBuildRecommendations

SpecScorer == ScorerInit /\ [][ScorerNext]_vars

----------------------------------------------------------------------------
(* Properties of buildRecommendations (under SpecScorer) *)

ProfileOf(name) == crops[CHOOSE i \in 1..Len(crops) : crops[i].crop = name]
Returned == {result[i] : i \in 1..Len(result)}
Computed == {mapCrops(argSoil, argWeather, argMarket)[i] : i \in 1..Len(crops)}

\* C1: the result is the top 4 of the 5 built-in crops by profitUSDPerHa: at
\* most 4 entries (here exactly 4, one per crop, each the record computed for
\* that crop), each entry's profit >= the next entry's, and the omitted
\* crop's profit is not greater than any returned crop's profit.
C1_TopFourByProfit ==
    called =>
        /\ Len(result) <= TopN
        /\ Len(result) = 4
        /\ Returned \subseteq Computed
        /\ \A i, j \in 1..Len(result) : i # j => result[i].crop # result[j].crop
        /\ \A i \in 1..(Len(result) - 1) :
               WideLeq(result[i + 1].profitUSDPerHa, result[i].profitUSDPerHa)
        /\ \A o \in Computed \ Returned : \A r \in Returned :
               WideLeq(o.profitUSDPerHa, r.profitUSDPerHa)

\* C1 witness: a call whose market boosts reorder the crops, so that the
\* result is not in table order and the omitted crop is not the last one
C1_Witness ==
    /\ called
    /\ argMarket # <<>>
    /\ result[1].crop # "Wheat"
    /\ \E i \in 1..(Len(result) - 1) :
           WideLess(result[i + 1].profitUSDPerHa, result[i].profitUSDPerHa)
    /\ "Cotton" \in {r.crop : r \in Returned}

\* the inputs with every absent optional field given explicitly
ExplicitSoil(s) ==
    [ph |-> IF "ph" \in DOMAIN s THEN s.ph ELSE 65,
     moisture |-> IF "moisture" \in DOMAIN s THEN s.moisture ELSE 55,
     source |-> s.source]
ExplicitWeather(w) ==
    [temperature |-> IF "temperature" \in DOMAIN w THEN w.temperature ELSE 300,
     source |-> w.source]

\* C2: for every combination of absent soil.ph, soil.moisture and
\* weather.temperature the call returns a result, and it equals the result
\* for the same inputs with pH 6.5, moisture 55 and temperature 30 given
\* explicitly in place of the absent fields.
C2_DefaultsForAbsent ==
    called =>
        /\ Len(result) > 0
        /\ result = buildRecommendations(ExplicitSoil(argSoil),
                                         ExplicitWeather(argWeather), argMarket)

\* C2 witness: all three fields absent and the market list empty
C2_Witness ==
    /\ called
    /\ DOMAIN argSoil = {"source"}
    /\ DOMAIN argWeather = {"source"}
    /\ argMarket = <<>>
    /\ Len(result) = 4

\* C6: every returned recommendation's sustainabilityScore is an integer in
\* 0..100, whatever the pH and the crop's water need.
C6_SustainabilityInRange ==
    called => \A r \in Returned : r.sustainabilityScore \in 0..100

\* C6 witness: a pH above a returned crop's ideal range and inside
\* another's, with crops of all three water-need classes returned
C6_Witness ==
    /\ called
    /\ {ProfileOf(r.crop).water : r \in Returned} = {"high", "medium", "low"}
    /\ \E r \in Returned : phOf(argSoil) > ProfileOf(r.crop).idealPh[2]
    /\ \E r \in Returned : r.sustainabilityScore = 98

\* C7 as stated: no returned crop scores below 76.
C7_Original_MinIs76 ==
    called => \A r \in Returned : r.sustainabilityScore >= 76

\* C7 amended: the smallest sustainabilityScore is 70, the score of a
\* high-water-need crop (penalty 0.6: 60 + 0.4 * 25 = 70) whose phScore is 0;
\* no crop scores below 70.
C7_MinIs70 ==
    called =>
        /\ \A r \in Returned : r.sustainabilityScore >= 70
        /\ \A r \in Returned :
               (/\ ProfileOf(r.crop).water = "high"
                /\ scoreRange(phOf(argSoil), ProfileOf(r.crop).idealPh[1],
                              ProfileOf(r.crop).idealPh[2]) = 0)
               => r.sustainabilityScore = 70

\* C7 witness: Rice (water high) returned for a pH 2.5 or more outside its
\* ideal range, scoring 70
C7_Witness ==
    /\ called
    /\ \E r \in Returned :
           /\ r.crop = "Rice"
           /\ phOf(argSoil) <= 55 - 25
           /\ r.sustainabilityScore = 70

\* the boost C10 states for a crop, in 1/5500: 1 without a case-insensitive
\* match, else min(1.25, 1 + (price / ref - 1) * 0.4) for the first match
StatedBoost(mkt, name) ==
    LET hits == {i \in 1..Len(mkt) : toLowerCase(mkt[i].crop) = toLowerCase(name)}
    IN  IF hits = {} THEN 5500
        ELSE LET m == mkt[CHOOSE i \in hits : \A j \in hits : i <= j]
                 ref == IF m.unit = "kg" THEN 25 ELSE 2200
                 b == 5500 + (2 * ((5500 * m.price) \div ref - 5500)) \div 5
             IN  IF b > 6875 THEN 6875 ELSE b

\* C10: the boost is exactly 1.0 when no market entry matches the crop name
\* case-insensitively (for every crop when the list is empty); with a match
\* it is min(1.25, 1 + (price/ref - 1) * 0.4), ref 25 for "kg" and 2200
\* otherwise, never above 1.25; and profitUSDPerHa = baseProfit *
\* yieldAdjustment * marketBoost, the yield adjustment being
\* expectedYieldTPerHa / baseYield.
C10_MarketBoost ==
    called =>
        \A r \in Returned :
            LET c == ProfileOf(r.crop)
                yieldAdj == r.expectedYieldTPerHa \div c.baseYield
                boost == StatedBoost(argMarket, r.crop)
            IN  /\ r.expectedYieldTPerHa = c.baseYield * yieldAdj
                /\ boost <= 6875
                /\ (argMarket = <<>> => boost = 5500)
                /\ r.profitUSDPerHa = WideMul(c.baseProfit * yieldAdj, boost)
                /\ WideLeq(r.profitUSDPerHa, WideMul(c.baseProfit * yieldAdj, 6875))

\* C10 witness: Rice returned with a capped boost, matched through "RICE",
\* next to a crop without a market entry
C10_Witness ==
    /\ called
    /\ Len(argMarket) = 2
    /\ argMarket[1].crop = "RICE"
    /\ argMarket[2].crop = "Rice"
    /\ \E r \in Returned : r.crop = "Rice" /\ StatedBoost(argMarket, r.crop) = 6875
    /\ \E r \in Returned : r.crop = "Maize" /\ StatedBoost(argMarket, r.crop) = 5500

----------------------------------------------------------------------------
(* Properties of scoreRange (under SpecScoreRange); scores in 1/25 *)

\* the distance of x from [a, b], in tenths: 0 inside
Distance(x, a, b) == IF x < a THEN a - x ELSE IF x > b THEN x - b ELSE 0

\* C8: for a <= b, scoreRange(x, a, b) is 1 when a <= x <= b and otherwise
\* max(0, 1 - d/2.5), d being a - x below the range and x - b above it.
C8_ScoreRangeValue ==
    (srCalled /\ srA <= srB) =>
        /\ (srA <= srX /\ srX <= srB) => srOut = 25
        /\ srX < srA =>
               srOut = (IF 25 - (srA - srX) > 0 THEN 25 - (srA - srX) ELSE 0)
        /\ srX > srB =>
               srOut = (IF 25 - (srX - srB) > 0 THEN 25 - (srX - srB) ELSE 0)

\* C8 witness: a call strictly between full score and zero, above the range
C8_Witness ==
    /\ srCalled
    /\ srA < srB
    /\ srX = srB + 10
    /\ srOut = 15

\* C9: scoreRange does not increase with the distance of x from [a, b]: a
\* second x on the same side and farther out never scores higher; the
\* score is 0 at every distance >= 2.5, and always within [0, 1].
C9_ScoreRangeMonotone ==
    (srCalled /\ srA <= srB) =>
        /\ srOut \in 0..25
        /\ Distance(srX, srA, srB) >= 25 => srOut = 0
        /\ \A x2 \in 0..MaxX :
               (/\ (srX < srA /\ x2 < srX) \/ (srX > srB /\ x2 > srX)
                   \/ (srX >= srA /\ srX <= srB))
               => scoreRange(x2, srA, srB) <= srOut

\* C9 witness: a call at distance exactly 2.5 below the range scoring 0,
\* with a farther x available
C9_Witness ==
    /\ srCalled
    /\ srX = srA - 25
    /\ srX > 0
    /\ srOut = 0

----------------------------------------------------------------------------
(* The worked scenario (under SpecScorer) *)

RiceQuintal2400 == [crop |-> "Rice", unit |-> "quintal", price |-> 2400, market |-> "m"]

Scenario ==
    /\ called
    /\ "ph" \in DOMAIN argSoil /\ argSoil.ph = 66
    /\ "moisture" \in DOMAIN argSoil /\ argSoil.moisture = 58
    /\ "temperature" \in DOMAIN argWeather /\ argWeather.temperature = 315
    /\ Len(argMarket) >= 1 /\ argMarket[1] = RiceQuintal2400

\* C11: with pH 6.6, moisture 58, temperature 31.5 and a market entry
\* Rice / quintal / 2400, Rice has phScore 1, tempScore 1, waterScore 0.58,
\* fit 0.937 (so yieldAdjustment 1.3622), suitability "high" and marketBoost
\* 1 + (2400/2200 - 1) * 0.4 = 5700/5500, about 1.036; the returned Rice
\* record carries that tier, yield and profit.
C11_RiceScenario ==
    Scenario =>
        LET c == ProfileOf("Rice")
            phScore == scoreRange(phOf(argSoil), c.idealPh[1], c.idealPh[2])
            tempScore == scoreRange(tempOf(argWeather), c.idealTemp[1], c.idealTemp[2])
            wScore == waterScore(c, moistureOf(argSoil))
        IN  /\ phScore = 25
            /\ tempScore = 25
            /\ wScore = 58
            /\ 1000 * fitOf(phScore, tempScore, wScore) = 937 * 2000
            /\ \E r \in Returned :
                   /\ r.crop = "Rice"
                   /\ r.suitability = "high"
                   /\ r.expectedYieldTPerHa = 45 * 13622
                   /\ r.profitUSDPerHa = WideMul(900 * 13622, 5700)
                   /\ r.sustainabilityScore = 85
            /\ 1036 * 5500 <= 1000 * 5700 /\ 1000 * 5700 < 1037 * 5500

\* C11 witness: the scenario with the Rice entry alone in the market list
C11_Witness ==
    /\ Scenario
    /\ Len(argMarket) = 1
    /\ result[1].crop = "Rice"

----------------------------------------------------------------------------
(* buildRecommendations on a finer grid of readings, the moisture reaching *)
(* beyond 0..100, with no market list or the demo one                     *)

FitTempStep == 5
FitMoistureStep == 5
MoistureMargin == 20

FitPhInputs == {p \in MinPh..MaxPh : p % PhStep = 0}
FitTempInputs == {t \in MinTemp..MaxTemp : t % FitTempStep = 0}
FitMoistureInputs ==
    {m \in (0 - MoistureMargin)..(MaxMoisture + MoistureMargin) : m % FitMoistureStep = 0}

FitInit ==
    /\ InitApp
    /\ InitRange
    /\ InitPages
    /\ argSoil \in {[ph |-> p, moisture |-> m, source |-> "input"] :
                       p \in FitPhInputs, m \in FitMoistureInputs}
    /\ argWeather \in {[temperature |-> t, source |-> "input"] : t \in FitTempInputs}
    /\ argMarket \in {<<>>, mockMarket}
    /\ called = FALSE
    /\ result = <<>>

SpecFit == FitInit /\ [][ScorerNext]_vars

\* the yield adjustment (1/10000) and the fit (1/2000) a returned record was
\* computed with, recovered from its expectedYieldTPerHa
YieldAdjIn(r) == r.expectedYieldTPerHa \div ProfileOf(r.crop).baseYield
FitIn(r) == (YieldAdjIn(r) - 8000) \div 3
FitRecovered(r) ==
    /\ r.expectedYieldTPerHa = ProfileOf(r.crop).baseYield * YieldAdjIn(r)
    /\ YieldAdjIn(r) = 8000 + 3 * FitIn(r)

\* C12: the tier is determined by fit alone, with strict thresholds: "high"
\* exactly when fit > 0.7, "medium" exactly when 0.5 < fit <= 0.7, "low"
\* exactly when fit <= 0.5.
C12_SuitabilityThresholds ==
    called =>
        \A r \in Returned :
            /\ FitRecovered(r)
            /\ r.suitability = "high" <=> FitIn(r) > 1400
            /\ r.suitability = "medium" <=> (FitIn(r) > 1000 /\ FitIn(r) <= 1400)
            /\ r.suitability = "low" <=> FitIn(r) <= 1000

\* C12 witness: a returned crop with fit exactly 0.7, tier "medium", next
\* to one above 0.7, tier "high"
C12_Witness ==
    /\ called
    /\ \E r \in Returned : FitIn(r) = 1400 /\ r.suitability = "medium"
    /\ \E r \in Returned : FitIn(r) > 1400 /\ r.suitability = "high"

\* C13: for every pH and temperature and every moisture in [0,100], each
\* returned crop's fit lies in [0,1], its yield adjustment in [0.8,1.4] and
\* its expected yield between 0.8 and 1.4 times the base yield; so a fit
\* outside [0,1] occurs only with a moisture outside [0,100].
C13_FitBounds ==
    (called /\ moistureOf(argSoil) >= 0 /\ moistureOf(argSoil) <= 100) =>
        \A r \in Returned :
            /\ FitRecovered(r)
            /\ FitIn(r) >= 0 /\ FitIn(r) <= 2000
            /\ YieldAdjIn(r) >= 8000 /\ YieldAdjIn(r) <= 14000
            /\ 8 * ProfileOf(r.crop).baseYield * 10000 <= 10 * r.expectedYieldTPerHa
            /\ 10 * r.expectedYieldTPerHa <= 14 * ProfileOf(r.crop).baseYield * 10000

\* C13 witness: moisture 100 with Rice at fit exactly 1 and yield 1.4 times
\* its base yield
C13_Witness ==
    /\ called
    /\ moistureOf(argSoil) = 100
    /\ \E r \in Returned :
           r.crop = "Rice" /\ FitIn(r) = 2000 /\ r.expectedYieldTPerHa = 45 * 14000

\* fit does leave [0,1] once the moisture is outside [0,100]
FitAboveOne == called /\ moistureOf(argSoil) > 100 /\ \E r \in Returned : FitIn(r) > 2000
FitBelowZero == called /\ moistureOf(argSoil) < 0 /\ \E r \in Returned : FitIn(r) < 0


----------------------------------------------------------------------------
(* The chat: onSend, onFileChange, analyzeUserQuery, part_000:101-121, 363-407 *)

\* A text is the sequence of its words; "" is the empty sequence, which is
\* the only falsy text
emptyText == <<>>
Truthy(text) == text # emptyText

ImageOnlyContent == <<"Please", "analyze", "this", "image.">>

\* query.match(/irrigat|water/i) and query.match(/crop|plant|what.*grow/i)
\* on the words the model types
MatchesIrrigation(query) ==
    \E i \in 1..Len(query) : query[i] \in {"water", "irrigate", "Watering"}
MatchesCrop(query) ==
    \E i \in 1..Len(query) : query[i] \in {"crop", "plant", "Crops"}

\* irrigationAdvice, lines 381-387; rain in tenths of a millimetre
irrigationAdvice(s, w) ==
    LET moisture == Nullish(s, "moisture", 45)
        rain == IF "daily" \in DOMAIN w /\ Len(w.daily) >= 1
                THEN w.daily[1].rain ELSE 0
    IN  IF moisture >= 70 THEN "Moisture is high. Skip irrigation today."
        ELSE IF rain > 50 THEN "Rain expected. Delay irrigation for 24 hours."
        ELSE "Irrigate lightly (10-15 mm). Recheck soil moisture tomorrow."

\* top.expectedYieldTPerHa.toFixed(1): the yield (1/100000 t/ha) in tenths
yieldToFixed1(y) == (y + 5000) \div 10000

\* top.profitUSDPerHa.toFixed(0): the profit (1/55000000 USD) in dollars
profitToFixed0(p) ==
    (p.hi \div BoostDen) + (IF p.hi % BoostDen >= BoostDen \div 2 THEN 1 ELSE 0)

\* translate, lines 389-397: the tag put in front of the text
translate(l) ==
    CASE l = "hi-IN" -> "[hi]"
      [] l = "mr-IN" -> "[mr]"
      [] l = "te-IN" -> "[te]"
      [] l = "ta-IN" -> "[ta]"
      [] l = "bn-IN" -> "[bn]"
      [] OTHER -> ""

\* analyzeUserQuery, lines 363-379: the reply as its tag and its parts
analyzeUserQuery(query, s, w, recs, imageUrl, l) ==
    LET p1 == IF imageUrl # nullImage THEN <<[kind |-> "photo"]>> ELSE <<>>
        p2 == IF MatchesIrrigation(query)
              THEN <<[kind |-> "irrigation", advice |-> irrigationAdvice(s, w)]>>
              ELSE <<>>
        p3 == IF MatchesCrop(query)
              THEN <<[kind |-> "top", crop |-> recs[1].crop,
                      yield |-> yieldToFixed1(recs[1].expectedYieldTPerHa),
                      profit |-> profitToFixed0(recs[1].profitUSDPerHa)]>>
              ELSE <<>>
        parts == p1 \o p2 \o p3
    IN  [prefix |-> translate(l),
         parts |-> IF Len(parts) = 0 THEN <<[kind |-> "help"]>> ELSE parts]

\* the message onSend builds, line 103
userMsgOf(text, img) ==
    LET content == IF Truthy(text) THEN text
                   ELSE IF img # nullImage THEN ImageOnlyContent ELSE emptyText
    IN  WithField([role |-> "user", content |-> content],
                  "imageUrl", img # nullImage, img)

imageUrlOf(msg) == Nullish(msg, "imageUrl", nullImage)

MaxSends == 2
MaxReads == 1

InputTexts == {emptyText, <<"water">>, <<"which", "crop">>, <<"hello">>}
Photos == {[url |-> "data:leaf"]}
Langs == {"en-IN", "hi-IN"}

\* onChange of the text input, line 272
SetInput ==
    /\ mounted
    /\ \E v \in InputTexts : input' = v
    /\ UNCHANGED <<messages, image, lang, timers, reading, utterance, sends,
                   appVars, scorerVars, rangeVars, voiceVars, authVars>>

\* onChange of the language select, line 247
SetLang ==
    /\ mounted
    /\ \E l \in Langs : lang' = l
    /\ UNCHANGED <<messages, input, image, timers, reading, utterance, sends,
                   appVars, scorerVars, rangeVars, voiceVars, authVars>>

\* onFileChange with a file chosen, lines 115-121: the read starts
OnFileChange ==
    /\ mounted /\ Len(reading) < MaxReads
    /\ \E f \in Photos : reading' = Append(reading, f)
    /\ UNCHANGED <<messages, input, image, lang, timers, utterance, sends,
                   appVars, scorerVars, rangeVars, voiceVars, authVars>>

\* reader.onload, line 119
ReaderOnload ==
    /\ mounted /\ reading # <<>>
    /\ image' = Head(reading)
    /\ reading' = Tail(reading)
    /\ UNCHANGED <<messages, input, lang, timers, utterance, sends,
                   appVars, scorerVars, rangeVars, voiceVars, authVars>>

\* onSend without its guard
OnSendNoGuard ==
    /\ mounted /\ sends < MaxSends
    /\ sends' = sends + 1
    /\ LET userMsg == userMsgOf(input, image)
           reply == analyzeUserQuery(userMsg.content, soil, weather,
                                     recommendations, imageUrlOf(userMsg), lang)
       IN  /\ messages' = Append(messages, userMsg)
           /\ input' = emptyText
           /\ image' = nullImage
           /\ timers' = Append(timers, [reply |-> reply, lang |-> lang])
    /\ UNCHANGED <<lang, reading, utterance, appVars, scorerVars, rangeVars, voiceVars, authVars>>

\* onSend, lines 101-113: a click on Send (or Enter)
OnSend ==
    /\ mounted /\ sends < MaxSends
    /\ sends' = sends + 1
    /\ IF ~Truthy(input) /\ image = nullImage
       THEN UNCHANGED <<messages, input, image, timers>>
       ELSE LET userMsg == userMsgOf(input, image)
                reply == analyzeUserQuery(userMsg.content, soil, weather,
                                          recommendations, imageUrlOf(userMsg), lang)
            IN  /\ messages' = Append(messages, userMsg)
                /\ input' = emptyText
                /\ image' = nullImage
                /\ timers' = Append(timers, [reply |-> reply, lang |-> lang])
    /\ UNCHANGED <<lang, reading, utterance, appVars, scorerVars, rangeVars, voiceVars, authVars>>

\* the callback of setTimeout(..., 400), lines 109-112; timers of one delay
\* run in the order they were set
ReplyTimer ==
    /\ mounted /\ timers # <<>>
    /\ messages' = Append(messages, [role |-> "assistant",
                                     content |-> Head(timers).reply])
    /\ utterance' = [text |-> Head(timers).reply, lang |-> Head(timers).lang]
    /\ timers' = Tail(timers)
    /\ UNCHANGED <<input, image, lang, reading, sends,
                   appVars, scorerVars, rangeVars, voiceVars, authVars>>

\* The page as the chat finds it: demo data after failed requests, fetched
\* data, or the load still waiting for its responses
ChatSoilResponses == {networkError, okJson([phh2o |-> 66, soc |-> 120])}
ChatWeatherResponses ==
    {networkError,
     okJson([current |-> [temperature_2m |-> 285, relative_humidity_2m |-> 40,
                          precipitation |-> 0, wind_speed_10m |-> 12],
             daily |-> [time |-> <<"d1", "d2">>, temperature_2m_max |-> <<31, 30>>,
                        temperature_2m_min |-> <<22, 21>>,
                        precipitation_sum |-> <<70, 0>>]])}

PageLoaded ==
    /\ mounted = TRUE /\ geo = "unsupported" /\ coords = Delhi
    /\ cancelled = FALSE /\ error = nullString
    /\ marketP = Settled(fetchMarket, mockMarket)
    /\ \/ /\ loadPc = "awaiting" /\ loading = TRUE
          /\ soilP = Pending /\ weatherP = Pending
          /\ soil = initialSoil /\ weather = initialWeather /\ market = <<>>
       \/ /\ loadPc = "done" /\ loading = FALSE
          /\ \E rs \in ChatSoilResponses, rw \in ChatWeatherResponses :
                /\ (rs = networkError) = (rw = networkError)
                /\ soilP = Settled(fetchSoil(rs), mockSoil)
                /\ weatherP = Settled(fetchWeather(rw), mockWeather)
          /\ soil = soilP.settled.value
          /\ weather = weatherP.settled.value
          /\ market = marketP.settled.value

ChatInit == PageLoaded /\ InitScorer /\ InitRange /\ InitPages

ChatNext ==
    \/ SetInput
    \/ SetLang
    \/ OnFileChange
    \/ ReaderOnload
    \/ OnSend
    \/ ReplyTimer

SpecChat == ChatInit /\ [][ChatNext]_vars

\* the event loop runs a timer that is due
FairSpecChat == SpecChat /\ WF_vars(ReplyTimer)


----------------------------------------------------------------------------
(* Properties of the chat (under SpecChat and FairSpecChat) *)

IsUser(m) == m.role = "user"
IsAssistant(m) == m.role = "assistant"
UserMessages == SelectSeq(messages, IsUser)
AssistantMessages == SelectSeq(messages, IsAssistant)

\* the parts of the reply to the user message u; the page data does not
\* change during the chat
ReplyPartsFor(u) ==
    analyzeUserQuery(u.content, soil, weather, recommendations,
                     imageUrlOf(u), "en-IN").parts

IsPrefix(s, t) ==
    /\ Len(s) <= Len(t)
    /\ \A i \in 1..Len(s) : t[i].role = s[i].role /\ t[i] = s[i]

EmptySend == ~Truthy(input) /\ image = nullImage

\* every send is answered or has its reply timer pending, and the replies,
\* appended and pending, follow the order of the sends
RepliesInSendOrder ==
    LET users == UserMessages
        replies == Tail(AssistantMessages)
    IN  /\ Len(users) = Len(replies) + Len(timers)
        /\ \A k \in 1..Len(replies) :
               replies[k].content.parts = ReplyPartsFor(users[k])
        /\ \A j \in 1..Len(timers) :
               timers[j].reply.parts = ReplyPartsFor(users[Len(replies) + j])

\* C14: a send with empty input and no image leaves messages unchanged;
\* every other send appends exactly one user message at once and sets
\* exactly one reply timer, whose reply is appended later; messages only
\* grows at its end; replies are appended in the order of their sends; the
\* assistant messages never outnumber the user messages plus the greeting.
C14_ChatLog ==
    /\ [](/\ messages[1] = greeting
          /\ Len(AssistantMessages) <= Len(UserMessages) + 1
          /\ RepliesInSendOrder)
    /\ [][IsPrefix(messages, messages')]_vars
    /\ [][sends' # sends =>
            IF EmptySend
            THEN messages' = messages /\ timers' = timers
            ELSE /\ messages' = Append(messages, userMsgOf(input, image))
                 /\ Len(timers') = Len(timers) + 1]_vars
    /\ [][timers # <<>> /\ timers' = Tail(timers) =>
            /\ Len(messages') = Len(messages) + 1
            /\ IsAssistant(messages'[Len(messages')])]_vars
    /\ \A n \in 1..MaxSends :
           (Len(UserMessages) >= n) ~> (Len(AssistantMessages) >= n + 1)

\* two sends, a question on irrigation and then a photo alone, both
\* before the first timer ran, answered in that order
C14_Witness ==
    /\ Len(messages) = 5
    /\ IsUser(messages[2]) /\ MatchesIrrigation(messages[2].content)
    /\ IsUser(messages[3]) /\ messages[3].content = ImageOnlyContent
    /\ IsAssistant(messages[4]) /\ messages[4].content.parts[1].kind = "irrigation"
    /\ IsAssistant(messages[5]) /\ messages[5].content.parts[1].kind = "photo"
    /\ timers = <<>>


----------------------------------------------------------------------------
(* Voice input: toggleVoice, part_000:123-146 *)

MaxSessions == 2

Transcripts == {<<"water">>, <<"which", "crop">>}

\* a recognition object after rec.start(): it is active until stop() is
\* called on it or the service ends it, and its end event comes later
newSession(l) == [state |-> "active", lang |-> l, results |-> 0]

\* rec.stop(): nothing happens on a session that is not active
stopSession(ss, i) ==
    IF i # 0 /\ ss[i].state = "active"
    THEN [ss EXCEPT ![i].state = "stopping"]
    ELSE ss

\* toggleVoice in a browser without speech recognition, lines 124-127
ToggleVoiceUnsupported ==
    /\ mounted /\ ~speechSupported
    /\ UNCHANGED vars

\* toggleVoice, lines 128-145: a click on the Voice / Stop button
ToggleVoice ==
    /\ mounted /\ speechSupported
    /\ IF ~listening
       THEN /\ Len(sessions) < MaxSessions
            /\ sessions' = Append(sessions, newSession(lang))
            /\ recognitionRef' = Len(sessions) + 1
            /\ listening' = TRUE
       ELSE /\ sessions' = stopSession(sessions, recognitionRef)
            /\ listening' = FALSE
            /\ UNCHANGED recognitionRef
    /\ UNCHANGED <<speechSupported, chatVars, appVars, scorerVars, rangeVars, authVars>>

\* rec.onresult of session i, lines 134-137: one final result per session
RecognitionResult ==
    /\ mounted
    /\ \E i \in 1..Len(sessions) :
          /\ sessions[i].state # "ended" /\ sessions[i].results = 0
          /\ sessions' = [sessions EXCEPT ![i].results = 1]
          /\ \E text \in Transcripts : input' = input \o text
    /\ UNCHANGED <<listening, recognitionRef, speechSupported,
                   messages, image, lang, timers, reading, utterance, sends,
                   appVars, scorerVars, rangeVars, authVars>>

\* rec.onend of session i, line 138: the session ended, after stop() or by
\* itself
RecognitionEnd ==
    /\ mounted
    /\ \E i \in 1..Len(sessions) :
          /\ sessions[i].state # "ended"
          /\ sessions' = [sessions EXCEPT ![i].state = "ended"]
    /\ listening' = FALSE
    /\ UNCHANGED <<recognitionRef, speechSupported, chatVars,
                   appVars, scorerVars, rangeVars, authVars>>

VoiceInit ==
    /\ PageLoaded /\ InitScorer /\ InitRange /\ InitChat /\ InitAuth
    /\ listening = FALSE
    /\ recognitionRef = 0
    /\ sessions = <<>>
    /\ speechSupported \in BOOLEAN

VoiceNext ==
    \/ ToggleVoiceUnsupported
    \/ ToggleVoice
    \/ RecognitionResult
    \/ RecognitionEnd
    \/ SetInput

SpecVoice == VoiceInit /\ [][VoiceNext]_vars

----------------------------------------------------------------------------
(* Properties of the voice toggle (under SpecVoice) *)

\* the most recently started session has neither ended nor been stopped
LatestSessionActive ==
    sessions # <<>> /\ sessions[Len(sessions)].state = "active"

\* C15: the listening flag is true if and only if the most recently started
\* recognition session has neither ended nor been stopped.  Violated: the
\* end event of a stopped session clears the flag of the session started
\* after it.
C15_Original_ListeningIffLatestActive == listening <=> LatestSessionActive

\* the state the claim rules out: an earlier session's end event has
\* cleared the flag while the newest session is recognising
StaleEndClearedFlag ==
    /\ Len(sessions) >= 2
    /\ sessions[Len(sessions)].state = "active"
    /\ \E i \in 1..(Len(sessions) - 1) : sessions[i].state = "ended"
    /\ ~listening


----------------------------------------------------------------------------
(* The login and register pages: onSubmit of login/page.tsx:14-33 and of
   register/page.tsx:14-38 *)

MaxSubmits == 3

\* What `await authClient.signIn.email(...)` / `signUp.email(...)` gives the
\* handler: an object without error, one whose error has a code, one whose
\* error has no code, or an exception (the promise rejects)
AuthOutcomes == {
    [kind |-> "returned", error |-> [null |-> TRUE]],
    [kind |-> "returned", error |-> [code |-> "USER_ALREADY_EXISTS"]],
    [kind |-> "returned", error |-> [code |-> "INVALID_EMAIL_OR_PASSWORD"]],
    [kind |-> "returned", error |-> [status |-> 500]],
    [kind |-> "threw"] }

\* error?.code, as a condition
HasErrorCode(outcome) ==
    /\ outcome.kind = "returned"
    /\ "code" \in DOMAIN outcome.error
    /\ outcome.error.code # ""

Emails == {"", "a@farm.in"}
Passwords == {"", "pw1", "pw2"}
Names == {"", "Asha"}

LoginRoutes == {"/login", "/login?registered=true"}
OnLoginPage == route \in LoginRoutes
OnRegisterPage == route = "/register"

\* router.push(target): the page of the target mounts with its initial state
push(target) ==
    /\ route' = target
    /\ form' = IF target \in LoginRoutes THEN initialLoginForm
               ELSE IF target = "/register" THEN initialRegisterForm
               ELSE [none |-> TRUE]
    /\ authLoading' = FALSE

\* the onChange handlers of the login form, login/page.tsx:50-67
SetLoginForm ==
    /\ OnLoginPage
    /\ \/ \E v \in Emails : form' = [form EXCEPT !.email = v]
       \/ \E v \in Passwords : form' = [form EXCEPT !.password = v]
       \/ \E v \in BOOLEAN : form' = [form EXCEPT !.rememberMe = v]
    /\ UNCHANGED <<route, authLoading, authPc, authCall, authResult, toast, submits,
                   appVars, scorerVars, rangeVars, chatVars, voiceVars>>

\* the onChange handlers of the register form, register/page.tsx:54-86
SetRegisterForm ==
    /\ OnRegisterPage
    /\ \/ \E v \in Names : form' = [form EXCEPT !.name = v]
       \/ \E v \in Emails : form' = [form EXCEPT !.email = v]
       \/ \E v \in Passwords : form' = [form EXCEPT !.password = v]
       \/ \E v \in Passwords : form' = [form EXCEPT !.confirm = v]
    /\ UNCHANGED <<route, authLoading, authPc, authCall, authResult, toast, submits,
                   appVars, scorerVars, rangeVars, chatVars, voiceVars>>

\* the link between the two pages, login/page.tsx:40 and register/page.tsx:45,
\* followed while no auth call is in flight
FollowLink ==
    /\ authPc # "awaiting"
    /\ \/ OnLoginPage /\ push("/register")
       \/ OnRegisterPage /\ push("/login")
    /\ authPc' = "idle"
    /\ UNCHANGED <<authCall, authResult, toast, submits,
                   appVars, scorerVars, rangeVars, chatVars, voiceVars>>

\* LoginPage.onSubmit up to its await, login/page.tsx:14-26; the submit
\* button is disabled while loading (line 74)
LoginSubmit ==
    /\ OnLoginPage /\ ~authLoading /\ authPc = "idle" /\ submits < MaxSubmits
    /\ submits' = submits + 1
    /\ IF form.email = "" \/ form.password = ""
       THEN /\ toast' = "Please enter email and password"
            /\ UNCHANGED <<authLoading, authPc, authCall>>
       ELSE /\ authLoading' = TRUE
            /\ authCall' = [op |-> "signIn.email", email |-> form.email,
                            password |-> form.password,
                            rememberMe |-> form.rememberMe,
                            callbackURL |-> "/account"]
            /\ authPc' = "awaiting"
            /\ UNCHANGED toast
    /\ UNCHANGED <<route, form, authResult,
                   appVars, scorerVars, rangeVars, chatVars, voiceVars>>

\* LoginPage.onSubmit after its await, login/page.tsx:27-32
LoginResume ==
    /\ OnLoginPage /\ authPc = "awaiting"
    /\ \E outcome \in AuthOutcomes :
          /\ authResult' = outcome
          /\ authCall' = noCall
          /\ IF outcome.kind = "threw"
             THEN /\ authPc' = "threw"
                  /\ UNCHANGED <<route, form, authLoading, toast>>
             ELSE /\ authPc' = "idle"
                  /\ IF HasErrorCode(outcome)
                     THEN /\ authLoading' = FALSE
                          /\ toast' = "Invalid email or password. Please register first if you don't have an account."
                          /\ UNCHANGED <<route, form>>
                     ELSE /\ push("/account")
                          /\ UNCHANGED toast
    /\ UNCHANGED <<submits, appVars, scorerVars, rangeVars, chatVars, voiceVars>>

\* RegisterPage.onSubmit without the comparison of password and confirm
RegisterSubmitNoConfirm ==
    /\ OnRegisterPage /\ ~authLoading /\ authPc = "idle" /\ submits < MaxSubmits
    /\ submits' = submits + 1
    /\ IF form.name = "" \/ form.email = "" \/ form.password = ""
       THEN /\ toast' = "Please complete all fields"
            /\ UNCHANGED <<authLoading, authPc, authCall>>
       ELSE /\ authLoading' = TRUE
            /\ authCall' = [op |-> "signUp.email", email |-> form.email,
                            name |-> form.name, password |-> form.password]
            /\ authPc' = "awaiting"
            /\ UNCHANGED toast
    /\ UNCHANGED <<route, form, authResult,
                   appVars, scorerVars, rangeVars, chatVars, voiceVars>>

\* RegisterPage.onSubmit up to its await, register/page.tsx:14-29; the
\* submit button is disabled while loading (line 91)
RegisterSubmit ==
    /\ OnRegisterPage /\ ~authLoading /\ authPc = "idle" /\ submits < MaxSubmits
    /\ submits' = submits + 1
    /\ IF form.name = "" \/ form.email = "" \/ form.password = ""
       THEN /\ toast' = "Please complete all fields"
            /\ UNCHANGED <<authLoading, authPc, authCall>>
       ELSE IF form.password # form.confirm
       THEN /\ toast' = "Passwords do not match"
            /\ UNCHANGED <<authLoading, authPc, authCall>>
       ELSE /\ authLoading' = TRUE
            /\ authCall' = [op |-> "signUp.email", email |-> form.email,
                            name |-> form.name, password |-> form.password]
            /\ authPc' = "awaiting"
            /\ UNCHANGED toast
    /\ UNCHANGED <<route, form, authResult,
                   appVars, scorerVars, rangeVars, chatVars, voiceVars>>

\* RegisterPage.onSubmit after its await, register/page.tsx:30-37
RegisterResume ==
    /\ OnRegisterPage /\ authPc = "awaiting"
    /\ \E outcome \in AuthOutcomes :
          /\ authResult' = outcome
          /\ authCall' = noCall
          /\ IF outcome.kind = "threw"
             THEN /\ authPc' = "threw"
                  /\ UNCHANGED <<route, form, authLoading, toast>>
             ELSE /\ authPc' = "idle"
                  /\ IF HasErrorCode(outcome)
                     THEN /\ authLoading' = FALSE
                          /\ toast' = IF outcome.error.code = "USER_ALREADY_EXISTS"
                                      THEN "Email already registered"
                                      ELSE "Registration failed"
                          /\ UNCHANGED <<route, form>>
                     ELSE /\ toast' = "Account created! Please login."
                          /\ push("/login?registered=true")
    /\ UNCHANGED <<submits, appVars, scorerVars, rangeVars, chatVars, voiceVars>>

AuthInit ==
    /\ InitApp /\ InitScorer /\ InitRange /\ InitChat /\ InitVoice
    /\ route \in {"/login", "/register"}
    /\ form = IF route = "/login" THEN initialLoginForm ELSE initialRegisterForm
    /\ authLoading = FALSE
    /\ authPc = "idle"
    /\ authCall = noCall
    /\ authResult = noResult
    /\ toast = ""
    /\ submits = 0

AuthNext ==
    \/ SetLoginForm
    \/ SetRegisterForm
    \/ FollowLink
    \/ LoginSubmit
    \/ LoginResume
    \/ RegisterSubmit
    \/ RegisterResume

SpecAuth == AuthInit /\ [][AuthNext]_vars


----------------------------------------------------------------------------
(* Properties of the login and register pages (under SpecAuth) *)

ValidLogin(f) == f.email # "" /\ f.password # ""
ValidRegister(f) ==
    f.name # "" /\ f.email # "" /\ f.password # "" /\ f.password = f.confirm

LocalValidationPasses ==
    \/ OnLoginPage /\ ValidLogin(form)
    \/ OnRegisterPage /\ ValidRegister(form)

PushTargets == {"/account", "/login?registered=true"}

\* C16: the auth client is called only when local validation passes
\* (login: email and password non-empty; register: name, email and password
\* non-empty and password equal to confirm); the handlers navigate
\* (/account after login, /login?registered=true after register) only after
\* an auth call that returned no error code; and loading is false again
\* after every submit that completes, whether it succeeded, failed
\* validation or returned an error.
C16_AuthHandlers ==
    /\ [](authPc = "idle" => ~authLoading /\ authCall = noCall)
    /\ [](authCall # noCall => authPc = "awaiting" /\ authLoading)
    /\ [][authCall' # noCall /\ authCall' # authCall =>
            /\ LocalValidationPasses
            /\ authCall'.op = (IF OnLoginPage THEN "signIn.email" ELSE "signUp.email")
            /\ authCall'.email = form.email
            /\ authCall'.password = form.password]_vars
    /\ [][submits' # submits /\ ~LocalValidationPasses =>
            /\ authCall' = noCall /\ authPc' = "idle" /\ ~authLoading'
            /\ route' = route]_vars
    /\ [][route' \in PushTargets /\ route' # route =>
            /\ authCall # noCall
            /\ authResult'.kind = "returned" /\ ~HasErrorCode(authResult')
            /\ route' = (IF authCall.op = "signIn.email" THEN "/account"
                         ELSE "/login?registered=true")
            /\ ~authLoading']_vars
    /\ [][authCall # noCall /\ authCall' = noCall /\ HasErrorCode(authResult') =>
            route' = route /\ ~authLoading' /\ authPc' = "idle"]_vars

\* a registration refused for a known address, then one that is accepted,
\* then a login: the user is on /account and nothing is loading
C16_Witness ==
    /\ route = "/account"
    /\ submits = 3
    /\ toast = "Account created! Please login."
    /\ authResult.kind = "returned" /\ ~HasErrorCode(authResult)
    /\ ~authLoading

\* the handlers do not catch an exception of the auth client: loading
\* stays true on a submit that ended that way
ThrewLeavesLoading == authPc = "threw" /\ authLoading

=============================================================================
